---- MODULE Spec2Model ----
(***************************************************************************)
(* Model of the trigram mapper of the layout evaluation                    *)
(* (layout_evaluation/src/ngram_mapper/trigram_mapper.rs and common.rs):   *)
(* map_trigrams, process_one_shot_layers, process_hold_layers,             *)
(* process_lock_layers, layerkey_indices and the take-one/two/three        *)
(* primitives.  Weights (f64 in the source) are exact rationals <<n, d>>.  *)
(***************************************************************************)
EXTENDS Integers, Sequences, FiniteSets, TLC

VARIABLES pc, layout, split_modifiers, exclude_line_breaks, trigrams,
          mapped_vec, not_found_weight, trigram_keys_vec, trigram_keys,
          result, take_in, take_out, layerkeys

vars == << pc, layout, split_modifiers, exclude_line_breaks, trigrams,
           mapped_vec, not_found_weight, trigram_keys_vec, trigram_keys,
           result, take_in, take_out, layerkeys >>

(***************************************************************************)
(* Bounds of the model.                                                    *)
(***************************************************************************)
\* longest modifier list a layer-key of the layout carries
MaxMods == 3
\* most entries of a character trigram table / of a pass's input
MaxGrams == 2

(***************************************************************************)
(* f64 weights as exact rationals <<numerator, denominator>>.              *)
(***************************************************************************)
RECURSIVE GCD(_, _)
GCD(x, y) == IF y = 0 THEN x ELSE GCD(y, x % y)

Norm(n, d) == LET g == GCD(n, d) IN IF g = 0 THEN << 0, 1 >> ELSE << n \div g, d \div g >>

Rat(n) == << n, 1 >>

Zero == << 0, 1 >>

RAdd(x, y) == Norm(x[1] * y[2] + y[1] * x[2], x[2] * y[2])

RMul(x, y) == Norm(x[1] * y[1], x[2] * y[2])

\* x / (n as f64), n > 0
RDivLen(x, n) == Norm(x[1], x[2] * n)

RLeq(x, y) == x[1] * y[2] <= y[1] * x[2]

RECURSIVE RSum(_)
RSum(ws) ==
    IF Len(ws) = 0 THEN Zero
    ELSE IF Len(ws) = 1 THEN ws[1]
    ELSE LET h == Len(ws) \div 2
         IN RAdd(RSum(SubSeq(ws, 1, h)), RSum(SubSeq(ws, h + 1, Len(ws))))

\* weights of table entries
Weights == { << 1, 1 >>, << 2, 1 >> }

\* same_key_mod_factor, in (0, 1]
Factors == { << 1, 2 >>, << 1, 1 >> }

(***************************************************************************)
(* Sequence helpers (iterator plumbing of the source).                     *)
(***************************************************************************)
\* concatenation of a sequence of sequences (by halves)
RECURSIVE Flatten(_)
Flatten(ss) ==
    IF Len(ss) = 0 THEN << >>
    ELSE IF Len(ss) = 1 THEN ss[1]
    ELSE LET h == Len(ss) \div 2
         IN Flatten(SubSeq(ss, 1, h)) \o Flatten(SubSeq(ss, h + 1, Len(ss)))

Range(s) == { s[i] : i \in DOMAIN s }

\* all sequences over S of length lo..hi
SeqsOf(S, lo, hi) == UNION { [1..n -> S] : n \in lo..hi }

\* a.zip(a.skip(1)).zip(a.skip(2)): the width-3 windows of a sequence
Windows(s) == [i \in 1..(IF Len(s) >= 2 THEN Len(s) - 2 ELSE 0) |-> << s[i], s[i + 1], s[i + 2] >>]

(***************************************************************************)
(* common.rs: the fixed-capacity primitives.  A push beyond the capacity   *)
(* of a tinyvec ArrayVec panics: the result is then [panic |-> TRUE].      *)
(***************************************************************************)
TakeOneCap == 3
TakeTwoCap == 4
TakeThreeCap == 2

ArrayVecOf(cap, pushes) ==
    IF Len(pushes) > cap THEN [panic |-> TRUE, res |-> << >>]
    ELSE [panic |-> FALSE, res |-> pushes]

take_one_layerkey(base_key, modifiers, weight) ==
    ArrayVecOf(TakeOneCap,
               << << base_key, weight >> >>
               \o [i \in 1..Len(modifiers) |-> << modifiers[i], weight >>])

\* the mutant: the (modifier, base) pair is pushed as (base, modifier)
take_two_layerkey_base_first(base_key, modifiers, weight, same_key_mod_adjustment) ==
    LET n == Len(modifiers)
        adj == RMul(same_key_mod_adjustment, weight)
        inner(i) == Flatten([j \in 1..(n - i) |->
                       LET m1 == modifiers[i]
                           m2 == modifiers[i + j]
                       IN IF m1 # m2
                          THEN << << << m1, m2 >>, adj >>, << << m2, m1 >>, adj >> >>
                          ELSE << >>])
        outer == Flatten([i \in 1..n |->
                       << << << base_key, modifiers[i] >>, weight >> >> \o inner(i)])
    IN ArrayVecOf(TakeTwoCap, outer)

take_two_layerkey(base_key, modifiers, weight, same_key_mod_adjustment) ==
    LET n == Len(modifiers)
        adj == RMul(same_key_mod_adjustment, weight)
        inner(i) == Flatten([j \in 1..(n - i) |->
                       LET m1 == modifiers[i]
                           m2 == modifiers[i + j]
                       IN IF m1 # m2
                          THEN << << << m1, m2 >>, adj >>, << << m2, m1 >>, adj >> >>
                          ELSE << >>])
        outer == Flatten([i \in 1..n |->
                       << << << modifiers[i], base_key >>, weight >> >> \o inner(i)])
    IN ArrayVecOf(TakeTwoCap, outer)

take_three_layerkey(base_key, modifiers, weight, same_key_mod_adjustment) ==
    LET n == Len(modifiers)
        adj == RMul(same_key_mod_adjustment, weight)
        adj2 == RMul(same_key_mod_adjustment, adj)
        six(m1, m2, m3) == << << << m1, m2, m3 >>, adj2 >>, << << m1, m3, m2 >>, adj2 >>,
                              << << m2, m1, m3 >>, adj2 >>, << << m2, m3, m1 >>, adj2 >>,
                              << << m3, m1, m2 >>, adj2 >>, << << m3, m2, m1 >>, adj2 >> >>
        \* modifiers.iter().skip(i + 2) with 0-based i, i.e. elements i+2.. (1-based)
        third(i, m1, m2) == Flatten([k \in 1..(IF n > i + 1 THEN n - i - 1 ELSE 0) |->
                                        six(m1, m2, modifiers[i + 1 + k])])
        inner(i) == Flatten([j \in 1..(n - i) |->
                       LET m1 == modifiers[i]
                           m2 == modifiers[i + j]
                       IN << << << m1, m2, base_key >>, adj >>,
                             << << m2, m1, base_key >>, adj >> >>
                          \o third(i, m1, m2)])
        outer == Flatten([i \in 1..n |-> inner(i)])
    IN ArrayVecOf(TakeThreeCap, outer)

(***************************************************************************)
(* The layout (crate keyboard_layout, an external collaborator): a key     *)
(* table with a base layer, two held layers, a one-shot layer and a lock   *)
(* layer.  A layout is chosen by the layers it has, its capability flags   *)
(* and the modifier lists of its first held layer and its one-shot layer.  *)
(***************************************************************************)
NoKey == "-"

HoldModKeys == { "M1", "M2", "M3" }
OneShotModKeys == { "S1", "S2" }
LockModKeys == { "T1" }

BaseKeys == { "a", "b", "sp", "nl" } \cup HoldModKeys \cup OneShotModKeys \cup LockModKeys

Keys == BaseKeys \cup { "A", "hsp", "B", "O", "P", "L", "K" }

Triples(S) == S \X S \X S

\* layer number of a key
KeyLayer(k) ==
    CASE k \in { "A", "hsp" } -> 1
      [] k = "B" -> 2
      [] k \in { "O", "P" } -> 3
      [] k \in { "L", "K" } -> 4
      [] OTHER -> 0

\* modifier classification of a layer: the tag of LayerModifiers
LayerType(n) ==
    CASE n \in { 1, 2 } -> "hold"
      [] n = 3 -> "one_shot"
      [] n = 4 -> "lock"
      [] OTHER -> "none"

LayerTypes == { "hold", "one_shot", "lock" }

get_base_layerkey_index(k) ==
    CASE k \in { "A", "O", "L" } -> "a"
      [] k \in { "B", "P", "K" } -> "b"
      [] k = "hsp" -> "sp"
      [] OTHER -> k

\* LayerKey.symbol.is_whitespace()
is_whitespace(k) == k \in { "sp", "nl", "hsp" }

\* LayerKey.modifiers: [type, mods]
key_modifiers(lay, k) ==
    LET n == KeyLayer(k)
    IN [type |-> LayerType(n),
        mods |-> CASE n = 1 -> lay.hold_mods
                   [] n = 2 -> << "M2" >>
                   [] n = 3 -> lay.one_shot_mods
                   [] n = 4 -> << "T1" >>
                   [] OTHER -> << >>]

get_layerkey(lay, k) ==
    [symbol |-> k, layer |-> KeyLayer(k), modifiers |-> key_modifiers(lay, k),
     is_whitespace |-> is_whitespace(k)]

resolve_modifiers(lay, k) == << get_base_layerkey_index(k), key_modifiers(lay, k) >>

\* the keys a layout has: the base layer and the layers it contains
LayoutKeys(lay) == { k \in Keys : KeyLayer(k) = 0 \/ LayerType(KeyLayer(k)) \in lay.layers }

\* characters are named by the key that types them; "z" is on no layout, "\n" is the line break
Chars == { "a", "b", " ", "\n", "A", "B", "O", "P", "L", "K", "z" }

SymbolKey(c) ==
    CASE c = " " -> "sp"
      [] c = "\n" -> "nl"
      [] c = "z" -> NoKey
      [] OTHER -> c

get_layerkey_index_for_symbol(lay, c) ==
    IF SymbolKey(c) \in LayoutKeys(lay) THEN SymbolKey(c) ELSE NoKey

has_one_shot_layers(lay) == lay.has_one_shot

has_hold_layers(lay) == lay.has_hold

has_lock_layers(lay) == lay.has_lock

HoldModLists == SeqsOf({ "M1", "M2" }, 1, MaxMods)

OneShotModLists == SeqsOf(OneShotModKeys, 1, MaxMods)

\* a capability flag is set when the layout has keys of the type; it may also be
\* set for a layer type that is declared but holds no key
Layouts(layerSets, holdLists, oneShotLists) ==
    { lay \in [layers : layerSets, has_one_shot : BOOLEAN, has_hold : BOOLEAN,
               has_lock : BOOLEAN, hold_mods : holdLists, one_shot_mods : oneShotLists] :
        /\ "one_shot" \in lay.layers => lay.has_one_shot
        /\ "hold" \in lay.layers => lay.has_hold
        /\ "lock" \in lay.layers => lay.has_lock }

DefaultLayout ==
    [layers |-> LayerTypes, has_one_shot |-> TRUE, has_hold |-> TRUE, has_lock |-> TRUE,
     hold_mods |-> << "M1" >>, one_shot_mods |-> << "S1" >>]

DefaultSplit == [enabled |-> TRUE, same_key_mod_factor |-> << 1, 2 >>]

NoTake == [base_key |-> NoKey, modifiers |-> << >>, weight |-> Zero,
           same_key_mod_adjustment |-> Zero]

NoOut == [fn |-> "none", panic |-> FALSE, res |-> << >>]

\* the empty AHashMap
EmptyMap == [t \in {} |-> Zero]

(***************************************************************************)
(* The primitives on their own: a base key, 0..MaxMods modifiers, a        *)
(* weight and the penalty factor.                                          *)
(***************************************************************************)
TakeInit ==
    /\ pc = "take"
    /\ take_in \in [base_key : { "a" }, modifiers : SeqsOf(HoldModKeys, 0, MaxMods),
                    weight : Weights, same_key_mod_adjustment : Factors]
    /\ take_out = NoOut
    /\ layerkeys = << >>
    /\ layout = DefaultLayout
    /\ split_modifiers = DefaultSplit
    /\ exclude_line_breaks = FALSE
    /\ trigrams = << >>
    /\ mapped_vec = << >>
    /\ not_found_weight = Zero
    /\ trigram_keys_vec = << >>
    /\ trigram_keys = EmptyMap
    /\ result = EmptyMap

TakeFrame == UNCHANGED << layout, split_modifiers, exclude_line_breaks, trigrams, mapped_vec,
                          not_found_weight, trigram_keys_vec, trigram_keys, result, take_in,
                          layerkeys >>

TakeOne ==
    /\ pc = "take"
    /\ LET r == take_one_layerkey(take_in.base_key, take_in.modifiers, take_in.weight)
       IN take_out' = [fn |-> "one", panic |-> r.panic, res |-> r.res]
    /\ pc' = "took"
    /\ TakeFrame

TakeTwo ==
    /\ pc = "take"
    /\ LET r == take_two_layerkey(take_in.base_key, take_in.modifiers, take_in.weight,
                                  take_in.same_key_mod_adjustment)
       IN take_out' = [fn |-> "two", panic |-> r.panic, res |-> r.res]
    /\ pc' = "took"
    /\ TakeFrame

TakeThree ==
    /\ pc = "take"
    /\ LET r == take_three_layerkey(take_in.base_key, take_in.modifiers, take_in.weight,
                                    take_in.same_key_mod_adjustment)
       IN take_out' = [fn |-> "three", panic |-> r.panic, res |-> r.res]
    /\ pc' = "took"
    /\ TakeFrame

TakeNext == TakeOne \/ TakeTwo \/ TakeThree

SpecTake == TakeInit /\ [][TakeNext]_vars

\* C9: for every base key and every list of 0, 1, 2 or 3 modifiers, take-one,
\* take-two and take-three return normally (no push beyond the capacity).
C9_NoFatalError == pc = "took" => ~take_out.panic

\* the modifier list of the call has pairwise distinct keys
DistinctMods == \A i, j \in DOMAIN take_in.modifiers :
                    i # j => take_in.modifiers[i] # take_in.modifiers[j]

\* take-three returned for 0, 1 or 2 distinct modifiers: nothing for 0 or 1, the two
\* triples (m1, m2, b) and (m2, m1, b) with weight f * w for 2
C11_UpToTwoModifiers ==
    (pc = "took" /\ take_out.fn = "three" /\ DistinctMods) =>
        LET m == take_in.modifiers
            fw == RMul(take_in.same_key_mod_adjustment, take_in.weight)
        IN /\ Len(m) <= 1 => (~take_out.panic /\ take_out.res = << >>)
           /\ Len(m) = 2 =>
                 /\ ~take_out.panic
                 /\ Len(take_out.res) = 2
                 /\ Range(take_out.res) = { << << m[1], m[2], take_in.base_key >>, fw >>,
                                            << << m[2], m[1], take_in.base_key >>, fw >> }

\* take-three returned for 3 distinct modifiers: the 6 permutations of the three
\* modifiers, each with weight f * f * w
C11_ThreeModifiers ==
    (pc = "took" /\ take_out.fn = "three" /\ DistinctMods /\ Len(take_in.modifiers) = 3) =>
        LET m == take_in.modifiers
            ffw == RMul(take_in.same_key_mod_adjustment,
                        RMul(take_in.same_key_mod_adjustment, take_in.weight))
        IN /\ ~take_out.panic
           /\ Len(take_out.res) = 6
           /\ Range(take_out.res) =
                 { << t, ffw >> : t \in { u \in Triples(Range(m)) :
                                            u[1] # u[2] /\ u[2] # u[3] /\ u[1] # u[3] } }

\* C11: take-three with base key b, weight w and penalty factor f returns nothing
\* for 0 or 1 modifiers; for 2 distinct modifiers exactly (m1, m2, b) and (m2, m1, b),
\* each with weight f * w; for 3 distinct modifiers exactly the 6 permutations of
\* the three modifiers, each with weight f * f * w, and no triple in which the same
\* key occurs twice.
C11_TakeThree ==
    /\ C11_UpToTwoModifiers
    /\ C11_ThreeModifiers
    /\ (pc = "took" /\ take_out.fn = "three" /\ DistinctMods) =>
          \A x \in Range(take_out.res) :
              x[1][1] # x[1][2] /\ x[1][2] # x[1][3] /\ x[1][1] # x[1][3]

(***************************************************************************)
(* map_trigrams: characters to layer-key indices.  The table is iterated   *)
(* in an arbitrary (hash) order: `trigrams` is that order, a sequence of   *)
(* << <<c1, c2, c3>>, weight >> with distinct character triples.           *)
(***************************************************************************)
\* the mutant: only the first character is tested
line_break_excluded_first_only(exclude, c1, c2, c3) ==
    exclude /\ (c1 = "\n" /\ c2 # "\n")

line_break_excluded(exclude, c1, c2, c3) ==
    exclude /\ ((c1 = "\n" /\ c2 # "\n") \/ (c2 = "\n" /\ c3 # "\n"))

\* the mutant: a missing third character drops the trigram without accounting
map_one_trigram_third_unaccounted(lay, exclude, gram, weight) ==
    LET idx1 == get_layerkey_index_for_symbol(lay, gram[1])
        idx2 == get_layerkey_index_for_symbol(lay, gram[2])
        idx3 == get_layerkey_index_for_symbol(lay, gram[3])
    IN IF line_break_excluded(exclude, gram[1], gram[2], gram[3])
       THEN [out |-> << >>, not_found |-> Zero]
       ELSE IF idx1 = NoKey THEN [out |-> << >>, not_found |-> weight]
       ELSE IF idx2 = NoKey THEN [out |-> << >>, not_found |-> weight]
       ELSE IF idx3 = NoKey THEN [out |-> << >>, not_found |-> Zero]
       ELSE [out |-> << << << idx1, idx2, idx3 >>, weight >> >>, not_found |-> Zero]

\* the filter_map closure: what one table entry yields and adds to not_found_weight
map_one_trigram(lay, exclude, gram, weight) ==
    LET idx1 == get_layerkey_index_for_symbol(lay, gram[1])
        idx2 == get_layerkey_index_for_symbol(lay, gram[2])
        idx3 == get_layerkey_index_for_symbol(lay, gram[3])
    IN IF line_break_excluded(exclude, gram[1], gram[2], gram[3])
       THEN [out |-> << >>, not_found |-> Zero]
       ELSE IF idx1 = NoKey THEN [out |-> << >>, not_found |-> weight]
       ELSE IF idx2 = NoKey THEN [out |-> << >>, not_found |-> weight]
       ELSE IF idx3 = NoKey THEN [out |-> << >>, not_found |-> weight]
       ELSE [out |-> << << << idx1, idx2, idx3 >>, weight >> >>, not_found |-> Zero]

map_trigrams(grams, lay, exclude) ==
    LET each == [i \in 1..Len(grams) |-> map_one_trigram(lay, exclude, grams[i][1], grams[i][2])]
    IN << Flatten([i \in 1..Len(grams) |-> each[i].out]),
          RSum([i \in 1..Len(grams) |-> each[i].not_found]) >>

\* the trigram tables over the characters cs: 1..MaxGrams distinct character trigrams,
\* the i-th with weight i
Tables(cs) ==
    { [i \in 1..Len(q) |-> << q[i], Rat(i) >>] :
        q \in { p \in SeqsOf(Triples(cs), 1, MaxGrams) :
                  \A i, j \in 1..Len(p) : i # j => p[i] # p[j] } }

MapChars == { "a", "\n", "z" }

MapInit ==
    /\ pc = "start"
    /\ trigrams \in Tables(MapChars)
    /\ exclude_line_breaks \in BOOLEAN
    /\ layout = DefaultLayout
    /\ split_modifiers = DefaultSplit
    /\ mapped_vec = << >>
    /\ not_found_weight = Zero
    /\ trigram_keys_vec = << >>
    /\ trigram_keys = EmptyMap
    /\ result = EmptyMap
    /\ take_in = NoTake
    /\ take_out = NoOut
    /\ layerkeys = << >>

\* layerkey_indices, lines 89-90
MapTrigrams ==
    /\ pc = "start"
    /\ LET r == map_trigrams(trigrams, layout, exclude_line_breaks)
       IN /\ mapped_vec' = r[1]
          /\ not_found_weight' = r[2]
    /\ pc' = "mapped"
    /\ UNCHANGED << layout, split_modifiers, exclude_line_breaks, trigrams, trigram_keys_vec,
                    trigram_keys, result, take_in, take_out,
                    layerkeys >>

SpecMap == MapInit /\ [][MapTrigrams]_vars

\* what the claims about map_trigrams speak of
Covered(gram) == \A i \in 1..3 : get_layerkey_index_for_symbol(layout, gram[i]) # NoKey

Crossing(gram) ==
    \/ gram[1] = "\n" /\ gram[2] # "\n"
    \/ gram[2] = "\n" /\ gram[3] # "\n"

Removed(gram) == exclude_line_breaks /\ Crossing(gram)

KeysOf(gram) == [i \in 1..3 |-> get_layerkey_index_for_symbol(layout, gram[i])]

Emitted(gram) == { i \in 1..Len(mapped_vec) : mapped_vec[i][1] = KeysOf(gram) }

IsSubSeq(sel, n) == \A i, j \in 1..Len(sel) : i < j => sel[i] < sel[j] /\ sel[j] <= n

\* C2: a trigram that is not removed by line-break exclusion and has a character
\* absent from the layout adds its weight exactly once to the not-found weight and
\* emits no key-triple; a trigram with all three characters present emits exactly one
\* key-triple with its weight and adds nothing; so a covered table has not-found 0.
C2_NotFoundAccounting ==
    pc = "mapped" =>
        LET kept == { i \in 1..Len(trigrams) : ~Removed(trigrams[i][1]) }
            lost == { i \in kept : ~Covered(trigrams[i][1]) }
        IN /\ not_found_weight =
                RSum([i \in 1..Len(trigrams) |-> IF i \in lost THEN trigrams[i][2] ELSE Zero])
           /\ \A i \in lost : \A j \in 1..Len(mapped_vec) : mapped_vec[j][1] # KeysOf(trigrams[i][1])
           /\ \A i \in kept \ lost :
                /\ Cardinality(Emitted(trigrams[i][1])) = 1
                /\ \A j \in Emitted(trigrams[i][1]) : mapped_vec[j][2] = trigrams[i][2]
           /\ Len(mapped_vec) = Cardinality(kept \ lost)
           /\ ((\A i \in 1..Len(trigrams) : Covered(trigrams[i][1])) => not_found_weight = Zero)

\* a trigram with an absent character was counted once and one that is covered was emitted
C2_Witness ==
    /\ pc = "mapped"
    /\ \E i, j \in 1..Len(trigrams) :
        /\ ~Removed(trigrams[i][1]) /\ ~Covered(trigrams[i][1])
        /\ ~Removed(trigrams[j][1]) /\ Covered(trigrams[j][1])
    /\ not_found_weight # Zero
    /\ mapped_vec # << >>

\* C8: with exclusion enabled a trigram is dropped exactly when a line break is
\* followed by a non-line-break; a dropped trigram yields no key-triple and nothing
\* for the not-found weight, even with an absent character; with exclusion disabled
\* nothing is dropped for this reason.
C8_LineBreakExclusion ==
    pc = "mapped" =>
        LET n == Len(trigrams)
            dropped == { i \in 1..n : exclude_line_breaks /\ Crossing(trigrams[i][1]) }
            counted == { i \in (1..n) \ dropped : ~Covered(trigrams[i][1]) }
            emitted == { i \in (1..n) \ dropped : Covered(trigrams[i][1]) }
        IN /\ \A i \in dropped : Emitted(trigrams[i][1]) = {}
           /\ \A i \in emitted : Emitted(trigrams[i][1]) # {}
           /\ not_found_weight =
                RSum([i \in 1..n |-> IF i \in counted THEN trigrams[i][2] ELSE Zero])
           /\ (~exclude_line_breaks => Len(mapped_vec) + Cardinality(counted) = n)
           /\ (\A i \in 1..n : trigrams[i][1] = << "\n", "a", "a" >> =>
                  (i \in dropped <=> exclude_line_breaks))
           /\ (\A i \in 1..n : trigrams[i][1] = << "a", "\n", "\n" >> => i \in emitted)

\* exclusion is on, ('\n','a','a') and a crossing trigram with an absent character
\* were dropped unaccounted, ('a','\n','\n') was kept
C8_Witness ==
    /\ pc = "mapped"
    /\ exclude_line_breaks
    /\ \E i, j \in 1..Len(trigrams) :
        /\ trigrams[i][1] = << "\n", "z", "a" >>
        /\ trigrams[j][1] = << "a", "\n", "\n" >>
    /\ not_found_weight = Zero
    /\ Len(mapped_vec) = 1

(***************************************************************************)
(* process_one_shot_layers                                                 *)
(***************************************************************************)
\* the mutant: the base key is pressed before its one-shot modifiers
one_shot_keys_base_first(lay, k) ==
    LET r == resolve_modifiers(lay, k)
    IN IF r[2].type = "one_shot" THEN << r[1] >> \o r[2].mods ELSE << k >>

\* lines 432-437: what one position contributes to `keys`
one_shot_keys(lay, k) ==
    LET r == resolve_modifiers(lay, k)
    IN IF r[2].type = "one_shot" THEN r[2].mods \o << r[1] >> ELSE << k >>

\* the closure of lines 425-459 for one entry ((k1, k2, k3), w)
one_shot_entry(lay, t, w) ==
    LET keys == one_shot_keys(lay, t[1]) \o one_shot_keys(lay, t[2]) \o one_shot_keys(lay, t[3])
        wins == Windows(keys)
    IN [i \in 1..Len(wins) |-> << wins[i], w >>]

process_one_shot_layers(vec, lay) ==
    Flatten([i \in 1..Len(vec) |-> one_shot_entry(lay, vec[i][1], vec[i][2])])

\* layerkey_indices, lines 92-94
OneShotStage ==
    /\ pc = "mapped"
    /\ trigram_keys_vec' = IF has_one_shot_layers(layout)
                           THEN process_one_shot_layers(mapped_vec, layout)
                           ELSE mapped_vec
    /\ pc' = "one_shot_done"
    /\ UNCHANGED << layout, split_modifiers, exclude_line_breaks, trigrams, mapped_vec,
                    not_found_weight, trigram_keys, result, take_in, take_out,
                    layerkeys >>

\* what map_trigrams can return: 1..MaxGrams entries with distinct key-triples
VecsOver(ks) ==
    { v \in SeqsOf(Triples(ks) \X Weights, 1, MaxGrams) :
        \A i, j \in 1..Len(v) : i # j => v[i][1] # v[j][1] }

OneShotKeySets == { { "a", "O" }, { "A", "O" }, { "O", "P" } }

OneShotInit ==
    /\ pc = "mapped"
    /\ layout \in Layouts({ LayerTypes }, { << "M1" >> }, OneShotModLists)
    /\ \E ks \in OneShotKeySets : mapped_vec \in VecsOver(ks)
    /\ split_modifiers = DefaultSplit
    /\ exclude_line_breaks = FALSE
    /\ trigrams = << >>
    /\ not_found_weight = Zero
    /\ trigram_keys_vec = << >>
    /\ trigram_keys = EmptyMap
    /\ result = EmptyMap
    /\ take_in = NoTake
    /\ take_out = NoOut
    /\ layerkeys = << >>

SpecOneShot == OneShotInit /\ [][OneShotStage]_vars

\* the stream the claim describes for one key-triple
C3_Part(k) ==
    IF key_modifiers(layout, k).type = "one_shot"
    THEN [i \in 1..(Len(key_modifiers(layout, k).mods) + 1) |->
            IF i <= Len(key_modifiers(layout, k).mods)
            THEN key_modifiers(layout, k).mods[i]
            ELSE get_base_layerkey_index(k)]
    ELSE << k >>

C3_Stream(t) == C3_Part(t[1]) \o C3_Part(t[2]) \o C3_Part(t[3])

\* number of output entries that stem from the input entries before the i-th
RECURSIVE C3_Offset(_)
C3_Offset(i) == IF i = 1 THEN 0 ELSE C3_Offset(i - 1) + Len(C3_Stream(mapped_vec[i - 1][1])) - 2

\* C3: for every input key-triple with weight w the one-shot resolver emits exactly
\* (stream length - 2) key-triples, the i-th being stream elements i, i+1, i+2, each
\* with the full weight w; three one-shot keys with one modifier each give a stream
\* of length 6 and 4 output triples.
C3_OneShotWindows ==
    pc = "one_shot_done" =>
        LET n == Len(mapped_vec)
        IN /\ Len(trigram_keys_vec) = C3_Offset(n + 1)
           /\ \A e \in 1..n :
                LET st == C3_Stream(mapped_vec[e][1])
                IN /\ \A i \in 1..(Len(st) - 2) :
                        trigram_keys_vec[C3_Offset(e) + i] =
                            << << st[i], st[i + 1], st[i + 2] >>, mapped_vec[e][2] >>
                   /\ ((\A p \in 1..3 : /\ key_modifiers(layout, mapped_vec[e][1][p]).type = "one_shot"
                                        /\ Len(key_modifiers(layout, mapped_vec[e][1][p]).mods) = 1)
                         => Len(st) = 6 /\ C3_Offset(e + 1) - C3_Offset(e) = 4)

\* a triple of three one-shot keys with one modifier each went through the resolver
C3_Witness ==
    /\ pc = "one_shot_done"
    /\ Len(layout.one_shot_mods) = 1
    /\ \E e \in 1..Len(mapped_vec) : mapped_vec[e][1] = << "O", "P", "O" >>
    /\ Len(mapped_vec) = 2
    /\ Len(trigram_keys_vec) > 4

(***************************************************************************)
(* The weight accumulator (AHashMap with insert_or_add_weight) and the     *)
(* plain collect() of a vector into a map.                                 *)
(***************************************************************************)
insert_or_add_weight(m, t, w) ==
    IF t \in DOMAIN m THEN [m EXCEPT ![t] = RAdd(@, w)] ELSE m @@ (t :> w)

\* insert_or_add_weight for every entry of es, in order: each key ends with its
\* previous weight plus the weights of its entries (exact addition is associative)
InsertAll(m, es) ==
    LET added(t) == LET sel == SelectSeq(es, LAMBDA e : e[1] = t)
                    IN RSum([i \in 1..Len(sel) |-> sel[i][2]])
    IN [t \in DOMAIN m \cup { es[i][1] : i \in DOMAIN es } |->
            IF \E i \in DOMAIN es : es[i][1] = t
            THEN insert_or_add_weight(m, t, added(t))[t] ELSE m[t]]

\* Vec<(K, V)>::into_iter().collect::<AHashMap<K, V>>(): a later entry replaces an
\* earlier one with the same key
CollectInto(m, es) ==
    LET last(t) == CHOOSE i \in DOMAIN es :
                       es[i][1] = t /\ \A j \in DOMAIN es : es[j][1] = t => j <= i
    IN [t \in DOMAIN m \cup { es[i][1] : i \in DOMAIN es } |->
            IF \E i \in DOMAIN es : es[i][1] = t THEN es[last(t)][2] ELSE m[t]]

(***************************************************************************)
(* process_hold_layers                                                     *)
(***************************************************************************)
\* lines 153-170: (key, mods) of one position
hold_position(lay, k) ==
    LET r == resolve_modifiers(lay, k)
    IN IF r[2].type = "hold" THEN [key |-> r[1], mods |-> r[2].mods]
       ELSE [key |-> k, mods |-> << >>]

\* the mutant: only the first pair of a generated triple is compared
hold_keep_first_pair_only(e1, e2, e3) == e1 # e2

\* the test of lines 186, 201, 215, 229, 243
hold_keep(e1, e2, e3) == (e1 # e2) /\ (e2 # e3)

\* ones x ones x ones, lines 183-197
hold_one_each(o1, o2, o3, w) ==
    Flatten([i \in 1..Len(o1) |-> Flatten([j \in 1..Len(o2) |-> Flatten([k \in 1..Len(o3) |->
        IF hold_keep(o1[i][1], o2[j][1], o3[k][1])
        THEN << << << o1[i][1], o2[j][1], o3[k][1] >>, w >> >>
        ELSE << >>])])])

\* twos x ones, lines 199-211 and 227-239
hold_two_one(tw, on) ==
    Flatten([i \in 1..Len(tw) |-> Flatten([j \in 1..Len(on) |->
        IF hold_keep(tw[i][1][1], tw[i][1][2], on[j][1])
        THEN << << << tw[i][1][1], tw[i][1][2], on[j][1] >>, tw[i][2] >> >>
        ELSE << >>])])

\* ones x twos, lines 213-225 and 241-253
hold_one_two(on, tw) ==
    Flatten([i \in 1..Len(on) |-> Flatten([j \in 1..Len(tw) |->
        IF hold_keep(on[i][1], tw[j][1][1], tw[j][1][2])
        THEN << << << on[i][1], tw[j][1][1], tw[j][1][2] >>, tw[j][2] >> >>
        ELSE << >>])])

\* the closure of lines 152-287 for one entry; TakeOneLayerKey::new, TakeTwoLayerKey::new
\* and TakeThreeLayerKey::new yield the elements of take_one_layerkey, take_two_layerkey
\* and take_three_layerkey of common.rs: whether a primitive panics, and the
\* (triple, weight) pairs handed to insert_or_add_weight, in order
hold_entry(lay, split, t, w) ==
    LET p1 == hold_position(lay, t[1])
        p2 == hold_position(lay, t[2])
        p3 == hold_position(lay, t[3])
        f == split.same_key_mod_factor
        k1_take_one == take_one_layerkey(p1.key, p1.mods, w)
        k2_take_one == take_one_layerkey(p2.key, p2.mods, w)
        k3_take_one == take_one_layerkey(p3.key, p3.mods, w)
        k1_take_two == take_two_layerkey(p1.key, p1.mods, w, f)
        k2_take_two == take_two_layerkey(p2.key, p2.mods, w, f)
        k3_take_two == take_two_layerkey(p3.key, p3.mods, w, f)
        k1_take_three == take_three_layerkey(p1.key, p1.mods, w, f)
        k2_take_three == take_three_layerkey(p2.key, p2.mods, w, f)
        k3_take_three == take_three_layerkey(p3.key, p3.mods, w, f)
        panic == \/ k1_take_one.panic \/ k2_take_one.panic \/ k3_take_one.panic
                 \/ k1_take_two.panic \/ k2_take_two.panic \/ k3_take_two.panic
                 \/ k1_take_three.panic \/ k2_take_three.panic \/ k3_take_three.panic
    IN [panic |-> panic,
        adds |-> IF panic THEN << >>
                 ELSE hold_one_each(k1_take_one.res, k2_take_one.res, k3_take_one.res, w)
                      \o hold_two_one(k1_take_two.res, k2_take_one.res)
                      \o hold_one_two(k1_take_one.res, k2_take_two.res)
                      \o hold_two_one(k2_take_two.res, k3_take_one.res)
                      \o hold_one_two(k2_take_one.res, k3_take_two.res)
                      \o k1_take_three.res
                      \o k2_take_three.res
                      \o k3_take_three.res]

process_hold_layers(vec, lay, split) ==
    LET each == [i \in 1..Len(vec) |-> hold_entry(lay, split, vec[i][1], vec[i][2])]
    IN IF \E i \in 1..Len(vec) : each[i].panic
       THEN [panic |-> TRUE, map |-> EmptyMap]
       ELSE [panic |-> FALSE,
             map |-> InsertAll(EmptyMap, Flatten([i \in 1..Len(vec) |-> each[i].adds]))]

\* layerkey_indices, lines 96-100
HoldStage ==
    /\ pc = "one_shot_done"
    /\ IF has_hold_layers(layout) /\ split_modifiers.enabled
       THEN LET r == process_hold_layers(trigram_keys_vec, layout, split_modifiers)
            IN /\ trigram_keys' = r.map
               /\ pc' = IF r.panic THEN "panic" ELSE "hold_done"
       ELSE /\ trigram_keys' = CollectInto(EmptyMap, trigram_keys_vec)
            /\ pc' = "hold_done"
    /\ UNCHANGED << layout, split_modifiers, exclude_line_breaks, trigrams, mapped_vec,
                    not_found_weight, trigram_keys_vec, result, take_in, take_out,
                    layerkeys >>

SplitConfigs == [enabled : BOOLEAN, same_key_mod_factor : Factors]

HoldKeySets == { { "a", "A" }, { "A", "B" }, { "sp", "hsp" } }

HoldInit ==
    /\ pc = "one_shot_done"
    /\ layout \in Layouts({ LayerTypes }, HoldModLists, { << "S1" >> })
    /\ split_modifiers \in { c \in SplitConfigs : c.enabled }
    /\ \E ks \in HoldKeySets : trigram_keys_vec \in VecsOver(ks)
    /\ exclude_line_breaks = FALSE
    /\ trigrams = << >>
    /\ mapped_vec = << >>
    /\ not_found_weight = Zero
    /\ trigram_keys = EmptyMap
    /\ result = EmptyMap
    /\ take_in = NoTake
    /\ take_out = NoOut
    /\ layerkeys = << >>

SpecHold == HoldInit /\ [][HoldStage]_vars

\* C4: no key-triple in the output of the held-modifier resolver has its first key
\* equal to its second or its second equal to its third, whichever partition of the
\* window produced it and whatever modifier list the layout returns.
C4_NoAdjacentDuplicate ==
    pc = "hold_done" => \A t \in DOMAIN trigram_keys : t[1] # t[2] /\ t[2] # t[3]

\* the key that stands for position p of the input triple t when it is typed
\* unmodified, and the modifiers of that position
PosBase(t, p) ==
    IF key_modifiers(layout, t[p]).type = "hold" THEN get_base_layerkey_index(t[p]) ELSE t[p]

PosMods(t, p) ==
    IF key_modifiers(layout, t[p]).type = "hold"
    THEN Range(key_modifiers(layout, t[p]).mods) ELSE {}

\* the emitted triple e takes its three keys from the positions ps of the input
\* triple t in the roles rs: positions never decrease and, within one position, no
\* base key stands before a modifier
Explains(t, e, ps, rs) ==
    /\ ps[1] <= ps[2] /\ ps[2] <= ps[3]
    /\ \A i \in 1..3 : IF rs[i] = "base" THEN e[i] = PosBase(t, ps[i])
                                          ELSE e[i] \in PosMods(t, ps[i])
    /\ \A i, j \in 1..3 : (i < j /\ ps[i] = ps[j]) => ~(rs[i] = "base" /\ rs[j] = "mod")

Ordered(t, e) ==
    \E ps \in [1..3 -> 1..3] : \E rs \in [1..3 -> { "base", "mod" }] : Explains(t, e, ps, rs)

\* the triples the held-modifier resolver emits for the i-th input entry
HoldEmitted(i) ==
    { x[1] : x \in Range(hold_entry(layout, split_modifiers, trigram_keys_vec[i][1],
                                     trigram_keys_vec[i][2]).adds) }

\* C12: every key-triple emitted by the held-modifier resolver for an input triple
\* takes each of its keys from the base key or a modifier of one input position,
\* the positions never decrease from first to third key, and the base key of a
\* position never stands before a modifier taken from the same position.
C12_OrderRespected ==
    pc = "hold_done" =>
        \A i \in 1..Len(trigram_keys_vec) :
            \A e \in HoldEmitted(i) :
                /\ e \in DOMAIN trigram_keys
                /\ Ordered(trigram_keys_vec[i][1], e)

\* the pass ran on (A, B, A) with two modifiers for A: a triple of the second
\* position's pair and the third position, and the three keys of the first position
C12_Witness ==
    /\ pc = "hold_done"
    /\ layout.hold_mods = << "M1", "M2" >>
    /\ \E i \in 1..Len(trigram_keys_vec) :
        /\ trigram_keys_vec[i][1] = << "A", "B", "A" >>
        /\ { << "M2", "b", "M1" >>, << "M1", "M2", "a" >> } \subseteq HoldEmitted(i)
    /\ { << "M2", "b", "M1" >>, << "M1", "M2", "a" >> } \subseteq DOMAIN trigram_keys

(***************************************************************************)
(* process_lock_layers                                                     *)
(***************************************************************************)
\* lk.modifiers.layer_modifier_type().is_lock()
is_lock(lk) == lk.modifiers.type = "lock"

\* vec![None]
NoSwitch == << NoKey >>

\* lines 320-335: the switch candidates after position 1
mods_after_1(lk1, lk2, lk3) ==
    IF lk1.modifiers.type = "hold"
    THEN IF \/ lk1.is_whitespace
            \/ lk1.layer = lk2.layer
            \/ (lk2.is_whitespace /\ lk1.layer = lk3.layer)
            \/ (lk2.is_whitespace /\ lk3.is_whitespace)
         THEN NoSwitch
         ELSE lk1.modifiers.mods
    ELSE NoSwitch

\* lines 336-345: the switch candidates before position 2
mods_before_2(lk1, lk2, lk3) ==
    IF lk2.modifiers.type = "hold"
    THEN IF lk1.is_whitespace \/ lk2.is_whitespace \/ lk1.layer = lk2.layer
         THEN NoSwitch
         ELSE lk2.modifiers.mods
    ELSE NoSwitch

\* lines 346-357: the switch candidates after position 2
mods_after_2(lk1, lk2, lk3) ==
    IF lk2.modifiers.type = "hold"
    THEN IF lk2.is_whitespace \/ lk3.is_whitespace \/ lk2.layer = lk3.layer
         THEN NoSwitch
         ELSE lk2.modifiers.mods
    ELSE NoSwitch

\* the mutant: the whitespace test of position 3 itself is missing
mods_before_3_no_own_whitespace(lk1, lk2, lk3) ==
    IF lk3.modifiers.type = "hold"
    THEN IF \/ lk2.layer = lk3.layer
            \/ (lk2.is_whitespace /\ lk1.layer = lk3.layer)
            \/ (lk1.is_whitespace /\ lk2.is_whitespace)
         THEN NoSwitch
         ELSE lk3.modifiers.mods
    ELSE NoSwitch

\* lines 358-372: the switch candidates before position 3
mods_before_3(lk1, lk2, lk3) ==
    IF lk3.modifiers.type = "hold"
    THEN IF \/ lk3.is_whitespace
            \/ lk2.layer = lk3.layer
            \/ (lk2.is_whitespace /\ lk1.layer = lk3.layer)
            \/ (lk1.is_whitespace /\ lk2.is_whitespace)
         THEN NoSwitch
         ELSE lk3.modifiers.mods
    ELSE NoSwitch

\* lines 320-372: the key of a position in the general branch
lock_key(lk, k) == IF lk.modifiers.type = "hold" THEN get_base_layerkey_index(k) ELSE k

\* the mutant: the division by the last slot is missing
w_per_path_three_slots(w, a1, b2, a2, b3) ==
    RDivLen(RDivLen(RDivLen(w, Len(a1)), Len(b2)), Len(a2))

\* lines 375-379
w_per_path(w, a1, b2, a2, b3) ==
    RDivLen(RDivLen(RDivLen(RDivLen(w, Len(a1)), Len(b2)), Len(a2)), Len(b3))

\* full_path.iter().filter_map(|key| **key)
FilterNone(path) == SelectSeq(path, LAMBDA k : k # NoKey)

\* lines 382-411: the enumerated paths [one .. seven], in loop order
lock_paths(key1, a1, b2, key2, a2, b3, key3) ==
    Flatten([i \in 1..Len(a1) |-> Flatten([j \in 1..Len(b2) |->
        Flatten([k \in 1..Len(a2) |-> [l \in 1..Len(b3) |->
            << key1, a1[i], b2[j], key2, a2[k], b3[l], key3 >>]])])])

\* the mutant: a triple without lock keys is stored under its base keys
lock_pass_through_as_base(t, w) ==
    << << << get_base_layerkey_index(t[1]), get_base_layerkey_index(t[2]),
             get_base_layerkey_index(t[3]) >>, w >> >>

\* line 304
lock_pass_through(t, w) == << << t, w >> >>

\* the closure of lines 295-413 for one entry ((k1, k2, k3), w): the branch taken,
\* the four switch slots, the paths and the (triple, weight) pairs handed to
\* insert_or_add_weight
lock_entry(lay, t, w) ==
    LET lk1 == get_layerkey(lay, t[1])
        lk2 == get_layerkey(lay, t[2])
        lk3 == get_layerkey(lay, t[3])
        a1 == mods_after_1(lk1, lk2, lk3)
        b2 == mods_before_2(lk1, lk2, lk3)
        a2 == mods_after_2(lk1, lk2, lk3)
        b3 == mods_before_3(lk1, lk2, lk3)
        wp == w_per_path(w, a1, b2, a2, b3)
        paths == lock_paths(lock_key(lk1, t[1]), a1, b2, lock_key(lk2, t[2]), a2, b3,
                            lock_key(lk3, t[3]))
    IN IF ~is_lock(lk1) /\ ~is_lock(lk2) /\ ~is_lock(lk3)
       THEN [branch |-> "pass", slots |-> << >>, paths |-> << >>, w_per_path |-> w,
             adds |-> lock_pass_through(t, w)]
       ELSE IF is_lock(lk1) /\ lk1.layer = lk2.layer /\ lk2.layer = lk3.layer
       THEN [branch |-> "same_layer", slots |-> << >>, paths |-> << >>, w_per_path |-> w,
             adds |-> << << << get_base_layerkey_index(t[1]), get_base_layerkey_index(t[2]),
                               get_base_layerkey_index(t[3]) >>, w >> >>]
       ELSE [branch |-> "general", slots |-> << a1, b2, a2, b3 >>, paths |-> paths,
             w_per_path |-> wp,
             adds |-> Flatten([p \in 1..Len(paths) |->
                         LET wins == Windows(FilterNone(paths[p]))
                         IN [i \in 1..Len(wins) |-> << wins[i], wp >>]])]

\* trigrams.into_iter().for_each(..): the entries of the map in some order
RECURSIVE LockFold(_, _, _)
LockFold(lay, in, todo) ==
    IF todo = {} THEN << >>
    ELSE LET t == CHOOSE x \in todo : TRUE
         IN lock_entry(lay, t, in[t]).adds \o LockFold(lay, in, todo \ { t })

process_lock_layers(in, lay) == InsertAll(EmptyMap, LockFold(lay, in, DOMAIN in))

\* layerkey_indices, lines 102-109
LockStage ==
    /\ pc = "hold_done"
    /\ result' = IF has_lock_layers(layout)
                 THEN process_lock_layers(trigram_keys, layout)
                 ELSE trigram_keys
    /\ pc' = "done"
    /\ UNCHANGED << layout, split_modifiers, exclude_line_breaks, trigrams, mapped_vec,
                    not_found_weight, trigram_keys_vec, trigram_keys, take_in, take_out,
                    layerkeys >>

\* accumulators of n entries over the keys ks
MapsOver(ks, n) ==
    UNION { [d -> Weights] :
              d \in { d \in { Range(q) : q \in [1..n -> Triples(ks)] } : Cardinality(d) = n } }

LockKeys == { "a", "sp", "A", "hsp", "B", "L", "K", "M1" }

LockManyKeys == { "a", "A", "L" }

LockInit ==
    /\ pc = "hold_done"
    /\ layout \in Layouts({ LayerTypes }, HoldModLists, { << "S1" >> })
    /\ \/ trigram_keys \in MapsOver(LockKeys, 1)
       \/ /\ layout.hold_mods = << "M1", "M2" >>
          /\ \E n \in 2..MaxGrams : trigram_keys \in MapsOver(LockManyKeys, n)
    /\ split_modifiers = DefaultSplit
    /\ exclude_line_breaks = FALSE
    /\ trigrams = << >>
    /\ mapped_vec = << >>
    /\ not_found_weight = Zero
    /\ trigram_keys_vec = << >>
    /\ result = EmptyMap
    /\ take_in = NoTake
    /\ take_out = NoOut
    /\ layerkeys = << >>

SpecLock == LockInit /\ [][LockStage]_vars

\* the input entries of the lock-layer resolver that take the general branch
GeneralEntries ==
    { t \in DOMAIN trigram_keys : lock_entry(layout, t, trigram_keys[t]).branch = "general" }

NonLockEntries ==
    { t \in DOMAIN trigram_keys : \A i \in 1..3 : key_modifiers(layout, t[i]).type # "lock" }

\* C6 as stated: every input triple without a lock-classified key is in the output
\* with the same weight as in the input, whatever other triples are in the input.
C6_PassThroughSameWeight ==
    pc = "done" =>
        \A t \in NonLockEntries : t \in DOMAIN result /\ result[t] = trigram_keys[t]

\* the other input triples whose resolution yields the triple t
ResolveTo(t) ==
    { u \in DOMAIN trigram_keys \ { t } :
        \E x \in Range(lock_entry(layout, u, trigram_keys[u]).adds) : x[1] = t }

\* C6, amended: every input triple without a lock-classified key is in the output
\* with the same three keys and at least its input weight; the weight is the input
\* weight exactly when no other input triple resolves to the same triple.
C6_PassThroughAtLeast ==
    pc = "done" =>
        \A t \in NonLockEntries :
            /\ t \in DOMAIN result
            /\ RLeq(trigram_keys[t], result[t])
            /\ (ResolveTo(t) = {} <=> result[t] = trigram_keys[t])

\* a triple without lock keys went through next to a lock triple that resolves to it
C6_Witness ==
    /\ pc = "done"
    /\ \E t \in NonLockEntries :
        /\ ResolveTo(t) # {}
        /\ t \in DOMAIN result
        /\ result[t] # trigram_keys[t]

\* the enumerated path p (seven slots) with its empty slots dropped, each element
\* tagged with the slot it came from: 1, 4, 7 are the keys of positions 1, 2, 3 and
\* 2, 3, 5, 6 are layer-switch slots
TaggedPath(p) ==
    SelectSeq([i \in 1..7 |-> << i, p[i] >>], LAMBDA x : x[2] # NoKey)

\* in path p a layer-switch key stands immediately before or after the key of slot s
SwitchNextTo(p, s) ==
    LET tp == TaggedPath(p)
    IN \E i \in 1..Len(tp) :
        /\ tp[i][1] = s
        /\ \/ (i > 1 /\ tp[i - 1][1] \in { 2, 3, 5, 6 })
           \/ (i < Len(tp) /\ tp[i + 1][1] \in { 2, 3, 5, 6 })

\* C10 as stated: in the general branch no enumerated path has a layer-switch key
\* immediately before or after the key of a whitespace position.
C10_NoSwitchAtWhitespace ==
    pc = "done" =>
        \A t \in GeneralEntries :
            \A p \in Range(lock_entry(layout, t, trigram_keys[t]).paths) :
                \A i \in 1..3 :
                    is_whitespace(t[i]) => ~SwitchNextTo(p, 3 * i - 2)

\* C10, amended: no enumerated path has a layer-switch key next to the key of a
\* whitespace first or third position; next to a whitespace middle position a
\* layer-switch key stands only when the first and third positions are on different
\* layers and neither of them is whitespace.
C10_NoSwitchAtOuterWhitespace ==
    pc = "done" =>
        \A t \in GeneralEntries :
            \A p \in Range(lock_entry(layout, t, trigram_keys[t]).paths) :
                /\ is_whitespace(t[1]) => ~SwitchNextTo(p, 1)
                /\ is_whitespace(t[3]) => ~SwitchNextTo(p, 7)
                /\ (is_whitespace(t[2]) /\ SwitchNextTo(p, 4)) =>
                        /\ KeyLayer(t[1]) # KeyLayer(t[3])
                        /\ ~is_whitespace(t[1])
                        /\ ~is_whitespace(t[3])

\* a general-branch triple with a whitespace middle position got a switch next to it,
\* and one with a whitespace first position and a held second position got none
C10_Witness ==
    /\ pc = "done"
    /\ \E t \in GeneralEntries :
        /\ is_whitespace(t[2])
        /\ \E p \in Range(lock_entry(layout, t, trigram_keys[t]).paths) : SwitchNextTo(p, 4)
        /\ \E u \in DOMAIN result : u[2] \in HoldModKeys /\ is_whitespace(u[3])

(***************************************************************************)
(* layerkey_indices: the passes in sequence.                               *)
(***************************************************************************)
\* the characters a layout has a key for, among those of the tables below
PipelineChars(lay) ==
    { c \in { "a", "b", "A", "O", "L" } : get_layerkey_index_for_symbol(lay, c) # NoKey }

Init ==
    /\ pc = "start"
    /\ layout \in Layouts(SUBSET LayerTypes, { << "M1", "M2" >> }, { << "S1" >> })
    /\ split_modifiers \in { c \in SplitConfigs : c.same_key_mod_factor = << 1, 2 >> }
    /\ \E c1, c2 \in PipelineChars(layout) : trigrams \in Tables({ c1, c2 })
    /\ exclude_line_breaks = FALSE
    /\ mapped_vec = << >>
    /\ not_found_weight = Zero
    /\ trigram_keys_vec = << >>
    /\ trigram_keys = EmptyMap
    /\ result = EmptyMap
    /\ take_in = NoTake
    /\ take_out = NoOut
    /\ layerkeys = << >>

Next == MapTrigrams \/ OneShotStage \/ HoldStage \/ LockStage

Spec == Init /\ [][Next]_vars

\* the held-modifier pass runs (line 96)
HoldRuns == has_hold_layers(layout) /\ split_modifiers.enabled

\* the accumulator that sums every contribution of the passes after the one-shot pass
SumOfContributions ==
    LET held == IF HoldRuns
                THEN process_hold_layers(trigram_keys_vec, layout, split_modifiers).map
                ELSE InsertAll(EmptyMap, trigram_keys_vec)
    IN IF has_lock_layers(layout) THEN process_lock_layers(held, layout) ELSE held

\* C1: in the map returned by layerkey_indices, for every capability combination,
\* the weight of a key-triple is the sum of all contributions the passes produced
\* for it; no contribution is replaced by a later one for the same triple.
C1_WeightIsSumOfContributions == pc = "done" => result = SumOfContributions

\* a triple has adjacent identical keys
AdjacentSame(t) == t[1] = t[2] \/ t[2] = t[3]

\* the passes that ran on a layout without a key of their modifier type
OneShotForced == pc \in { "one_shot_done", "hold_done", "done" }
                 /\ has_one_shot_layers(layout) /\ "one_shot" \notin layout.layers

HoldForced == pc \in { "hold_done", "done" } /\ HoldRuns /\ "hold" \notin layout.layers

LockForced == pc = "done" /\ has_lock_layers(layout) /\ "lock" \notin layout.layers

\* C7 as stated: on a layout with no key of the pass's modifier type each of the
\* three passes yields what skipping it yields, also for triples with the same key
\* at two adjacent positions.
C7_PassIsIdentity ==
    /\ OneShotForced => trigram_keys_vec = mapped_vec
    /\ HoldForced => trigram_keys = CollectInto(EmptyMap, trigram_keys_vec)
    /\ LockForced => result = trigram_keys

\* C7, amended: on such a layout the one-shot pass and the lock-layer pass are the
\* identity; the held-modifier pass drops every triple with the same key at two
\* adjacent positions and maps every other triple to the sum of its weights in the
\* list, which is what skipping yields when the list has no adjacent-identical
\* triple and no triple twice.
C7_PassIsIdentityButHoldFilter ==
    /\ OneShotForced => trigram_keys_vec = mapped_vec
    /\ HoldForced =>
         /\ trigram_keys =
              InsertAll(EmptyMap, SelectSeq(trigram_keys_vec, LAMBDA e : ~AdjacentSame(e[1])))
         /\ ((\A i, j \in 1..Len(trigram_keys_vec) :
                 /\ ~AdjacentSame(trigram_keys_vec[i][1])
                 /\ (i # j => trigram_keys_vec[i][1] # trigram_keys_vec[j][1]))
               => trigram_keys = CollectInto(EmptyMap, trigram_keys_vec))
    /\ LockForced => result = trigram_keys

\* the three passes ran on a layout with none of the three layer types, on a list
\* with an adjacent-identical triple, which the held-modifier pass dropped, and
\* another one, which went through
C7_Witness ==
    /\ pc = "done"
    /\ layout.layers = {}
    /\ OneShotForced /\ HoldForced /\ LockForced
    /\ \E i, j \in 1..Len(trigram_keys_vec) :
         /\ AdjacentSame(trigram_keys_vec[i][1])
         /\ ~AdjacentSame(trigram_keys_vec[j][1])
         /\ DOMAIN result = { trigram_keys_vec[j][1] }

(***************************************************************************)
(* get_filtered_layerkeys: the accumulator resolved to layer-keys.  The    *)
(* map is iterated in an arbitrary (hash) order.                           *)
(***************************************************************************)
\* LayerKey.is_modifier: the modifier type a key acts as
is_modifier(k) ==
    CASE k \in HoldModKeys -> "hold"
      [] k \in OneShotModKeys -> "one_shot"
      [] k \in LockModKeys -> "lock"
      [] OTHER -> "none"

\* the mutant: any key repeated next to the middle position is removed
repeated_hold_modifier_any_key(idx1, idx2, idx3) == idx1 = idx2 \/ idx2 = idx3

\* line 125: k2.is_modifier.is_hold() && (idx1 == idx2 || idx2 == idx3)
repeated_hold_modifier(idx1, idx2, idx3) ==
    is_modifier(idx2) = "hold" /\ (idx1 = idx2 \/ idx2 = idx3)

\* the iteration orders of a map with the keys S
Orders(S) == { q \in [1..Cardinality(S) -> S] : Range(q) = S }

\* lines 114-139, the map being iterated in the order `order`
get_filtered_layerkeys(order, in, lay) ==
    Flatten([i \in 1..Len(order) |->
        LET idx == order[i]
            k2 == get_layerkey(lay, idx[2])
        IN IF repeated_hold_modifier(idx[1], idx[2], idx[3])
           THEN << >>
           ELSE << << << get_layerkey(lay, idx[1]), k2, get_layerkey(lay, idx[3]) >>,
                      in[idx] >> >>])

GetFilteredLayerkeys ==
    /\ pc = "filter"
    /\ \E order \in Orders(DOMAIN result) :
         layerkeys' = get_filtered_layerkeys(order, result, layout)
    /\ pc' = "filtered"
    /\ UNCHANGED << layout, split_modifiers, exclude_line_breaks, trigrams, mapped_vec,
                    not_found_weight, trigram_keys_vec, trigram_keys, result, take_in,
                    take_out >>

\* a base key, a held-modifier key and a one-shot modifier key
FilterKeys == { "a", "M1", "S1" }

FilterInit ==
    /\ pc = "filter"
    /\ layout = DefaultLayout
    /\ \E n \in 1..MaxGrams : result \in MapsOver(FilterKeys, n)
    /\ split_modifiers = DefaultSplit
    /\ exclude_line_breaks = FALSE
    /\ trigrams = << >>
    /\ mapped_vec = << >>
    /\ not_found_weight = Zero
    /\ trigram_keys_vec = << >>
    /\ trigram_keys = EmptyMap
    /\ take_in = NoTake
    /\ take_out = NoOut
    /\ layerkeys = << >>

SpecFilter == FilterInit /\ [][GetFilteredLayerkeys]_vars

\* the key-triple of an entry of the returned list
EntryTriple(e) == << e[1][1].symbol, e[1][2].symbol, e[1][3].symbol >>

\* the middle key is a held-modifier key and equals the first or the third key
MiddleHeldRepeated(t) == t[2] \in HoldModKeys /\ (t[2] = t[1] \/ t[2] = t[3])

\* C13: get_filtered_layerkeys returns exactly one entry per key-triple of the
\* accumulator that is not filtered, with the triple's weight unchanged, and filters
\* a triple exactly when its middle key is a held-modifier key equal to its first
\* or third key; a triple with identical adjacent keys whose middle key is not a
\* held-modifier key is kept.
C13_FilteredLayerkeys ==
    pc = "filtered" =>
        /\ \A t \in DOMAIN result :
              LET hits == { i \in 1..Len(layerkeys) : EntryTriple(layerkeys[i]) = t }
              IN IF MiddleHeldRepeated(t)
                 THEN hits = {}
                 ELSE /\ Cardinality(hits) = 1
                      /\ \A i \in hits : layerkeys[i][2] = result[t]
        /\ \A i \in 1..Len(layerkeys) : EntryTriple(layerkeys[i]) \in DOMAIN result

\* an accumulator with a triple that is filtered and a triple with identical
\* adjacent keys and a middle key that is no held-modifier key went through
C13_Witness ==
    /\ pc = "filtered"
    /\ \E t, u \in DOMAIN result :
        /\ MiddleHeldRepeated(t)
        /\ u[1] = u[2] /\ u[2] \notin HoldModKeys
        /\ Len(layerkeys) = 1
        /\ EntryTriple(layerkeys[1]) = u

====
